---- MODULE Spec2Model ----
(***************************************************************************)
(* Model of flickr_PAD.py: the resumable download pipeline of              *)
(* FlickrDownloader.download_library, with the checkpoint file, the photo  *)
(* directory and the metadata directory as persistent state, and the       *)
(* remote catalog as a fixed environment.                                  *)
(***************************************************************************)
EXTENDS Integers, Sequences, FiniteSets, TLC

\* Number of processes (runs of main) a behaviour may start.
MaxRuns == 2

\* Number of environment faults (remote errors, write errors) a behaviour may hit.
MaxFaults == 2

\* Photo identifiers of the remote library.
Items == {1, 2, 3}

\* The remote library as people.getPhotos pages it: each catalog is the
\* sequence of pages, each page the ordered list of photo ids on it.
Catalogs == { << <<1, 2>>, <<3>> >>, << <<1>>, <<2>>, <<3>> >> }

\* A metadata document; NoDoc is "no file" (and Python's None), TruncatedDoc
\* a file cut short by a failed write.
NoDoc == [info |-> "none", exif |-> "none", comments |-> "none"]

TruncatedDoc == [info |-> "truncated", exif |-> "truncated", comments |-> "truncated"]

\* Number of times the destination name of one photo record is computed.
MaxInvocations == 2

\* Longest title among the short titles enumerated character by character.
MaxShortTitle == 2

\* The length sanitize_filename cuts its result to (line 82).
NameLimit == 200

VARIABLES
    catalog,        \* remote: pages of photo ids (fixed during a behaviour)
    urls,           \* remote: ids whose list record carries a download URL
    stateFileStatus,\* STATE_FILE on disk: "absent", "ok" or "truncated"
    stateFile,      \* the document in STATE_FILE when stateFileStatus = "ok"
    photosDir,      \* PHOTOS_DIR: id -> "none" | "full" | "partial"
    metadataDir,    \* METADATA_DIR: id -> NoDoc or the document written
    pc,             \* position of the process
    state,          \* download_library's local 'state'
    stats,          \* self.stats
    start_page,     \* download_library's local 'start_page'
    page,           \* loop variable of the page loop
    idx,            \* 1-based position in the page's photo list
    outcome,        \* result of the content fetch of the current photo
    runs,           \* processes started so far
    startup,        \* history: what main did before the page loop, this run
    queried,        \* history: results of the metadata step of the current photo
    faults,         \* history: environment faults so far, over all runs
    attempts,       \* history: page -> times the page loop entered it, this run
    errored,        \* history: pages of the loop whose fetch or processing raised, this run
    reached,        \* history: ids the item loop reached, this run
    transferred,    \* history: id -> successful asset transfers, all runs
    prev,           \* history: disk contents when the previous run completed,
                    \* kept while the run after it is running or completed
    photo,          \* naming: a photo record of the remote list
    filename,       \* naming: the destination name last computed for it
    names,          \* naming history: every name computed for the record
    invocations     \* naming history: times the name was computed

vars == << catalog, urls, stateFileStatus, stateFile, photosDir, metadataDir,
           pc, state, stats, start_page, page, idx, outcome, runs, startup,
           queried, faults, attempts, errored, reached, transferred, prev,
           photo, filename, names, invocations >>

remote == << catalog, urls >>
naming == << photo, filename, names, invocations >>
history == << attempts, errored, reached >>

----------------------------------------------------------------------------
\* Helpers on sequences

ToSet(s) == { s[i] : i \in 1..Len(s) }

InSeq(x, s) == \E i \in 1..Len(s) : s[i] = x

RECURSIVE SumLen(_)
SumLen(pages) == IF pages = << >> THEN 0 ELSE Len(Head(pages)) + SumLen(Tail(pages))

----------------------------------------------------------------------------
\* Remote catalog as seen by the program

total_photos == SumLen(catalog)

total_pages == Len(catalog)

photos == catalog[page]

photo_id == photos[idx]

PageIds(p) == ToSet(catalog[p])

AllIds == UNION { PageIds(p) : p \in 1..total_pages }

----------------------------------------------------------------------------
\* Checkpoint store

EmptyState == [last_page |-> 0, downloaded |-> << >>, failed |-> << >>]

load_state == IF stateFileStatus = "ok" THEN stateFile ELSE EmptyState

\* save_state opens STATE_FILE with mode 'w' (truncating it) and dumps the
\* whole document.  w is what the write does: "ok", "fail_intact" (open
\* raised) or "fail_truncated" (raised after the truncation).
save_state(st, w) ==
    /\ stateFileStatus' = CASE w = "ok" -> "ok"
                            [] w = "fail_truncated" -> "truncated"
                            [] OTHER -> stateFileStatus
    /\ stateFile' = IF w = "ok" THEN st ELSE stateFile

WriteResults == {"ok", "fail_intact", "fail_truncated"}

----------------------------------------------------------------------------
\* Metadata aggregator

QueryResults == {"ok", "notfound", "flickr_err", "other_err"}

\* get_photo_metadata with a failing photos.getExif treated as a failure of
\* the whole aggregation.
get_photo_metadata_hard(i, e, c) ==
    IF i # "ok" \/ e # "ok" \/ c = "other_err"
    THEN NoDoc
    ELSE [info |-> "info", exif |-> "exif",
          comments |-> IF c = "ok" THEN "comments" ELSE "null"]

\* get_photo_metadata: i is the result of photos.getInfo ("ok" or an error),
\* e of photos.getExif and c of photos.comments.getList.  "notfound" and
\* "flickr_err" are flickrapi FlickrError with and without 'not found' in the
\* text; "other_err" is any other exception, which only the outer handler
\* catches.  The result is the document, or NoDoc for Python's None.
get_photo_metadata(i, e, c) ==
    IF i # "ok" \/ e = "other_err" \/ (c = "other_err")
    THEN NoDoc
    ELSE [info |-> "info",
          exif |-> IF e = "ok" THEN "exif" ELSE "null",
          comments |-> IF c = "ok" THEN "comments" ELSE "null"]

\* save_metadata opens <photo_id>.json with mode 'w' and dumps the document.
save_metadata(id, doc, w) ==
    metadataDir' = CASE w = "ok" -> [metadataDir EXCEPT ![id] = doc]
                     [] w = "fail_truncated" -> [metadataDir EXCEPT ![id] = TruncatedDoc]
                     [] OTHER -> metadataDir

----------------------------------------------------------------------------
\* Content fetcher

TransferResults == {"ok", "fail_nofile", "fail_partial"}

\* get_download_url: the url found in the list record, or "None".
get_download_url(id) == IF id \in urls THEN "url" ELSE "None"

\* download_photo without its test for an existing destination.
download_photo_noskip(id, t) ==
    IF t = "ok"
    THEN [ret |-> TRUE, outcome |-> "Success",
          dir |-> [photosDir EXCEPT ![id] = "full"],
          stats |-> [stats EXCEPT !.downloaded = @ + 1], started |-> TRUE]
    ELSE [ret |-> FALSE, outcome |-> "Fail",
          dir |-> [photosDir EXCEPT ![id] = IF t = "fail_partial" THEN "partial" ELSE photosDir[id]],
          stats |-> [stats EXCEPT !.failed = @ + 1], started |-> TRUE]

\* download_photo: t is what the transfer does when it is started: "ok",
\* "fail_nofile" (requests.get or raise_for_status raised, before the file
\* is opened) or "fail_partial" (raised while the chunks were written).
download_photo(id, t) ==
    IF photosDir[id] # "none"
    THEN [ret |-> TRUE, outcome |-> "Skipped", dir |-> photosDir,
          stats |-> [stats EXCEPT !.skipped = @ + 1], started |-> FALSE]
    ELSE IF t = "ok"
    THEN [ret |-> TRUE, outcome |-> "Success",
          dir |-> [photosDir EXCEPT ![id] = "full"],
          stats |-> [stats EXCEPT !.downloaded = @ + 1], started |-> TRUE]
    ELSE [ret |-> FALSE, outcome |-> "Fail",
          dir |-> [photosDir EXCEPT ![id] = IF t = "fail_partial" THEN "partial" ELSE "none"],
          stats |-> [stats EXCEPT !.failed = @ + 1], started |-> TRUE]

\* The id goes to 'downloaded' whatever the fetch returned.
record_outcome_always(st, id, success, exists) ==
    [st EXCEPT !.downloaded = Append(@, id)]

\* Lines 283-286: the id goes to 'downloaded' when the fetch returned True
\* or the destination exists afterwards, to 'failed' otherwise.
record_outcome(st, id, success, exists) ==
    IF success \/ exists
    THEN [st EXCEPT !.downloaded = Append(@, id)]
    ELSE [st EXCEPT !.failed = Append(@, id)]

\* A rollback that also takes the page's ids out of both lists.
rollback_drop(st, p) ==
    LET Keep(x) == x \notin PageIds(p)
    IN  [last_page |-> p - 1,
         downloaded |-> SelectSeq(st.downloaded, Keep),
         failed |-> SelectSeq(st.failed, Keep)]

\* Line 305: the page handler sets last_page back to the page before p.
rollback(st, p) == [st EXCEPT !.last_page = p - 1]

\* A test that never skips.
already_processed_never(st, id) == FALSE

\* Lines 255-256: the test that skips a photo.
already_processed(st, id) == InSeq(id, st.downloaded)

\* No element occurs twice in the sequence.
NoDup(s) == \A i, j \in 1..Len(s) : s[i] = s[j] => i = j

----------------------------------------------------------------------------
\* Destination name.  Strings are sequences of one-character strings.

\* The characters of the class [<>:"/\\|?*] of line 80.
InvalidChars == {"<", ">", ":", "\"", "/", "\\", "|", "?", "*"}

\* Characters titles are drawn from: two of the class, a space, a letter.
TitleChars == {"/", "?", " ", "a"}

RECURSIVE SeqsUpTo(_, _)
\* All sequences over S of length at most n.
SeqsUpTo(S, n) ==
    IF n = 0 THEN { << >> }
    ELSE LET shorter == SeqsUpTo(S, n - 1)
         IN  shorter \cup { Append(t, c) : t \in {u \in shorter : Len(u) = n - 1}, c \in S }

\* A title of n characters, "?" and "a" in turn.
LongTitle(n) == [i \in 1..n |-> IF i % 2 = 1 THEN "?" ELSE "a"]

Titles ==
    SeqsUpTo(TitleChars, MaxShortTitle)
    \cup { <<"M", "y", " ", "T", "r", "i", "p", "!">> }
    \cup { LongTitle(n) : n \in (NameLimit - 1)..(NameLimit + 2) }

\* The records of the remote list: 'title' and 'originalformat' may be
\* missing from a record, 'media' is "photo" or "video".
Photos ==
    [id : { <<"1", "2", "3">>, <<"7">> },
     has_title : BOOLEAN,
     title : Titles,
     originalformat : { <<"j", "p", "g">>, <<"p", "n", "g">>, << >> },
     media : {"photo", "video"}]

ExamplePhoto ==
    [id |-> <<"1", "2", "3">>, has_title |-> TRUE,
     title |-> <<"M", "y", " ", "T", "r", "i", "p", "!">>,
     originalformat |-> <<"j", "p", "g">>, media |-> "photo"]

\* sanitize_filename without the cut of line 82.
sanitize_filename_nocap(name) ==
    [i \in 1..Len(name) |-> IF name[i] \in InvalidChars THEN "_" ELSE name[i]]

\* Lines 77-83: each character of the class becomes "_", then the result is
\* cut to its first NameLimit characters.
sanitize_filename(name) ==
    LET replaced == [i \in 1..Len(name) |-> IF name[i] \in InvalidChars THEN "_" ELSE name[i]]
    IN  SubSeq(replaced, 1, IF Len(replaced) < NameLimit THEN Len(replaced) ELSE NameLimit)

\* Line 253: photo.get('title', 'untitled').
title_of(p) ==
    IF p.has_title THEN p.title ELSE <<"u", "n", "t", "i", "t", "l", "e", "d">>

\* Lines 183-196: the original format when the record has one (modelled as
\* a non-empty originalformat), else mp4 for a video, else jpg.
get_file_extension(p) ==
    IF p.originalformat # << >> THEN p.originalformat
    ELSE IF p.media = "video" THEN <<"m", "p", "4">>
    ELSE <<"j", "p", "g">>

\* Lines 275-277: f"{photo_id}_{safe_title}.{extension}".
destination_name(p) ==
    p.id \o <<"_">> \o sanitize_filename(title_of(p)) \o <<".">> \o get_file_extension(p)

----------------------------------------------------------------------------
\* Initial state: nothing on disk, no process started.

NoPrev == [done |-> FALSE]

\* No process has run main yet: no authentication, the checkpoint not read,
\* no page, metadata or asset request issued.
NoStartup == [error |-> "none", state_read |-> FALSE, requested |-> FALSE]

\* No metadata step is recorded for the current photo.
NoQuery == [info |-> "none", exif |-> "none", comments |-> "none", write |-> "none"]

PipelineInit ==
    /\ catalog \in Catalogs
    /\ urls \in SUBSET Items
    /\ stateFileStatus = "absent"
    /\ stateFile = EmptyState
    /\ photosDir = [i \in Items |-> "none"]
    /\ metadataDir = [i \in Items |-> NoDoc]
    /\ pc = "idle"
    /\ state = EmptyState
    /\ stats = [downloaded |-> 0, failed |-> 0, skipped |-> 0, total |-> 0]
    /\ start_page = 1
    /\ page = 1
    /\ idx = 1
    /\ outcome = "none"
    /\ runs = 0
    /\ startup = NoStartup
    /\ queried = NoQuery
    /\ faults = 0
    /\ attempts = [p \in 1..Len(catalog) |-> 0]
    /\ errored = {}
    /\ reached = {}
    /\ transferred = [i \in Items |-> 0]
    /\ prev = NoPrev

\* The pipeline is modelled on photo ids; the destination name of a record
\* is modelled apart (NameSpec below) and stays uncomputed here.
Init ==
    /\ PipelineInit
    /\ photo = ExamplePhoto
    /\ filename = << >>
    /\ names = {}
    /\ invocations = 0

\* The process has exited: its memory (the locals of download_library and
\* self.stats) and the history of the run are gone.
Exited ==
    /\ state' = EmptyState
    /\ stats' = [downloaded |-> 0, failed |-> 0, skipped |-> 0, total |-> 0]
    /\ start_page' = 1
    /\ page' = 1
    /\ idx' = 1
    /\ outcome' = "none"
    /\ queried' = NoQuery
    /\ attempts' = [p \in 1..total_pages |-> 0]
    /\ errored' = {}
    /\ reached' = {}

\* The exit code of the process that has ended (lines 329, 350, 355; 0 when
\* main returns).
exit_code == IF pc = "fatal" THEN 1 ELSE 0

\* The startup error of a run: the credentials check of line 325 fails, or
\* authenticate raises (it is not called when the check fails).
startup_error(cred, auth) ==
    IF cred # "ok" THEN "credentials"
    ELSE IF auth # "ok" THEN "authentication" ELSE "none"

\* main without the test of authenticate's outcome.
main_proceeds_anyway(cred, auth) == cred = "ok"

\* Lines 325-346: main reaches download_library when the credentials check
\* passes and authenticate returns without raising.
main_proceeds(cred, auth) == cred = "ok" /\ auth = "ok"

Running == pc \in {"page", "item", "fetch", "commit", "pageErr"}

Ended == pc \in {"done", "interrupted", "fatal"}

\* The number of errors among the results rs of a step's remote calls and writes.
Errors(rs) == Cardinality({ k \in 1..Len(rs) : rs[k] # "ok" })

\* The environment makes n errors in this step, within the behaviour's budget.
Fault(n) ==
    /\ faults + n <= MaxFaults
    /\ faults' = faults + n

----------------------------------------------------------------------------
\* main / download_library up to the page loop (lines 342-346, 205-228):
\* a new process loads the checkpoint and fetches page 1 for the totals.
\* A truncated checkpoint makes json.load raise, a failed first fetch raises:
\* both reach main's 'except Exception' (exit 1).
StartRun ==
    /\ pc = "idle" \/ Ended
    /\ runs < MaxRuns
    /\ runs' = runs + 1
    /\ prev' = IF pc = "done"
               THEN [done |-> TRUE, photosDir |-> photosDir, metadataDir |-> metadataDir,
                     downloaded |-> ToSet(load_state.downloaded)]
               ELSE NoPrev
    /\ \E cred \in {"ok", "placeholder"}, auth \in {"ok", "err"}, first \in {"ok", "err"} :
        /\ cred # "ok" => auth = "ok"                                   \* not called
        /\ (cred # "ok" \/ auth # "ok") => first = "ok"                 \* not called
        /\ stateFileStatus = "truncated" => first = "ok"                \* not called
        /\ Fault(Errors(<<cred, auth, first>>))
        /\ IF ~main_proceeds(cred, auth)
           THEN /\ startup' = [error |-> startup_error(cred, auth),
                               state_read |-> FALSE, requested |-> FALSE]
                /\ pc' = "fatal"
                /\ Exited
           ELSE /\ startup' = [error |-> startup_error(cred, auth),
                               state_read |-> TRUE,
                               requested |-> stateFileStatus # "truncated"]
                /\ IF stateFileStatus # "truncated" /\ first = "ok"
                   THEN /\ state' = load_state
                        /\ start_page' = state'.last_page + 1
                        /\ page' = start_page'
                        /\ stats' = [downloaded |-> 0, failed |-> 0, skipped |-> 0,
                                     total |-> total_photos]
                        /\ idx' = 1
                        /\ outcome' = "none"
                        /\ queried' = NoQuery
                        /\ attempts' = [p \in 1..total_pages |-> 0]
                        /\ errored' = {}
                        /\ reached' = {}
                        /\ pc' = "page"
                   ELSE /\ pc' = "fatal"
                        /\ Exited
    /\ UNCHANGED << remote, naming, stateFileStatus, stateFile, photosDir, metadataDir,
                    transferred >>

\* Lines 231-248: the page loop enters 'page' and gets its photo list; page 1
\* of a run that starts at page 1 reuses first_page, any other page is fetched.
BeginPage ==
    /\ pc = "page"
    /\ page <= total_pages
    /\ attempts' = [attempts EXCEPT ![page] = @ + 1]
    /\ \E fetch \in {"ok", "err"} :
        /\ (page = 1 /\ start_page = 1) => fetch = "ok"
        /\ Fault(Errors(<<fetch>>))
        /\ pc' = IF fetch = "ok" THEN "item" ELSE "pageErr"
        /\ errored' = IF fetch = "ok" THEN errored ELSE errored \cup {page}
    /\ idx' = 1
    /\ UNCHANGED << remote, naming, stateFileStatus, stateFile, photosDir, metadataDir,
                    state, stats, start_page, page, outcome, runs, startup,
                    queried, reached, transferred, prev >>

\* Lines 251-269: the next photo of the page: skipped when its id is in
\* state['downloaded'], else its metadata is fetched and written.  A failing
\* metadata write raises into the page's handler.
ProcessItem ==
    /\ pc = "item"
    /\ idx <= Len(photos)
    /\ reached' = reached \cup {photo_id}
    /\ IF already_processed(state, photo_id)
       THEN /\ idx' = idx + 1
            /\ UNCHANGED << metadataDir, pc, errored, faults, queried >>
       ELSE \E i \in {"ok", "err"}, e \in QueryResults, c \in QueryResults,
               w \in WriteResults :
            LET metadata == get_photo_metadata(i, e, c)
            IN  /\ i # "ok" => (e = "ok" /\ c = "ok")      \* not called
                /\ e = "other_err" => c = "ok"             \* not called
                /\ metadata = NoDoc => w = "ok"            \* nothing written
                /\ Fault(Errors(<<i, e, c, w>>))
                /\ queried' = [info |-> i, exif |-> e, comments |-> c,
                               write |-> IF metadata = NoDoc THEN "none" ELSE w]
                /\ IF metadata # NoDoc
                   THEN save_metadata(photo_id, metadata, w)
                   ELSE UNCHANGED metadataDir
                /\ pc' = IF w = "ok" THEN "fetch" ELSE "pageErr"
                /\ errored' = IF w = "ok" THEN errored ELSE errored \cup {page}
                /\ idx' = idx
    /\ UNCHANGED << remote, naming, stateFileStatus, stateFile, photosDir, state, stats,
                    start_page, page, outcome, runs, startup, attempts,
                    transferred, prev >>

\* Lines 271-289: resolve the url, fetch the asset, and append the id to
\* state['downloaded'] or state['failed'].
DownloadItem ==
    /\ pc = "fetch"
    /\ IF get_download_url(photo_id) # "None"
       THEN \E t \in TransferResults :
            LET r == download_photo(photo_id, t)
            IN  /\ ~r.started => t = "ok"
                /\ Fault(Errors(<<t>>))
                /\ photosDir' = r.dir
                /\ stats' = r.stats
                /\ outcome' = r.outcome
                /\ transferred' = IF r.outcome = "Success"
                                  THEN [transferred EXCEPT ![photo_id] = @ + 1]
                                  ELSE transferred
                /\ state' = record_outcome(state, photo_id, r.ret,
                                           r.dir[photo_id] # "none")
       ELSE /\ outcome' = "NoUrl"
            /\ state' = [state EXCEPT !.failed = Append(@, photo_id)]
            /\ UNCHANGED << photosDir, stats, transferred, faults >>
    /\ pc' = "commit"
    /\ queried' = NoQuery
    /\ UNCHANGED << remote, naming, stateFileStatus, stateFile, metadataDir, start_page,
                    page, idx, runs, startup, history, prev >>

\* Lines 291-296: the checkpoint after each photo.  A failing write raises
\* into the page's handler.
Checkpoint ==
    /\ pc = "commit"
    /\ state' = [state EXCEPT !.last_page = page]
    /\ \E w \in WriteResults :
        /\ Fault(Errors(<<w>>))
        /\ save_state(state', w)
        /\ pc' = IF w = "ok" THEN "item" ELSE "pageErr"
        /\ idx' = IF w = "ok" THEN idx + 1 ELSE idx
        /\ errored' = IF w = "ok" THEN errored ELSE errored \cup {page}
    /\ UNCHANGED << remote, naming, photosDir, metadataDir, stats, start_page, page,
                    outcome, runs, startup, queried, attempts, reached,
                    transferred, prev >>

\* Lines 298-300: the photo list is exhausted; the loop goes to the next page.
PageComplete ==
    /\ pc = "item"
    /\ idx > Len(photos)
    /\ page' = page + 1
    /\ pc' = "page"
    /\ UNCHANGED << remote, naming, stateFileStatus, stateFile, photosDir, metadataDir,
                    state, stats, start_page, idx, outcome, runs, startup,
                    queried, faults, history, transferred, prev >>

\* Lines 302-308: the page's 'except Exception': roll last_page back, save,
\* sleep and 'continue' with the next page of the range.  A failing write here
\* is not caught by download_library: it reaches main's handler (exit 1).
PageError ==
    /\ pc = "pageErr"
    /\ \E w \in WriteResults :
        /\ Fault(Errors(<<w>>))
        /\ save_state(rollback(state, page), w)
        /\ IF w = "ok"
           THEN /\ state' = rollback(state, page)
                /\ page' = page + 1
                /\ pc' = "page"
                /\ queried' = NoQuery
                /\ UNCHANGED << stats, start_page, idx, outcome, history, prev >>
           ELSE /\ pc' = "fatal"
                /\ Exited
                /\ prev' = NoPrev
    /\ UNCHANGED << remote, naming, photosDir, metadataDir, runs, startup, transferred >>

\* Lines 310-319: the range is exhausted: final summary, exit 0.
FinalSummary ==
    /\ pc = "page"
    /\ page > total_pages
    /\ pc' = "done"
    /\ UNCHANGED << remote, naming, stateFileStatus, stateFile, photosDir, metadataDir,
                    state, stats, start_page, page, idx, outcome, runs, startup,
                    queried, faults, history, transferred, prev >>

\* Lines 347-350: KeyboardInterrupt, raised wherever the process is, ends it
\* with exit 0.  An interrupt inside a write (mid) leaves the file that was
\* being written: the metadata document or the checkpoint truncated, the
\* asset under transfer partial.
Cancel ==
    /\ Running
    /\ pc' = "interrupted"
    /\ \E mid \in BOOLEAN :
        LET in_meta == /\ pc = "item"
                       /\ idx <= Len(photos)
                       /\ ~already_processed(state, photo_id)
            in_transfer == /\ pc = "fetch"
                           /\ get_download_url(photo_id) # "None"
                           /\ photosDir[photo_id] = "none"
            in_save == pc \in {"commit", "pageErr"}
        IN  /\ mid => in_meta \/ in_transfer \/ in_save
            /\ metadataDir' = IF mid /\ in_meta
                              THEN [metadataDir EXCEPT ![photo_id] = TruncatedDoc]
                              ELSE metadataDir
            /\ photosDir' = IF mid /\ in_transfer
                            THEN [photosDir EXCEPT ![photo_id] = "partial"]
                            ELSE photosDir
            /\ stateFileStatus' = IF mid /\ in_save THEN "truncated" ELSE stateFileStatus
    /\ Exited
    /\ prev' = NoPrev
    /\ UNCHANGED << remote, naming, stateFile, runs, startup, faults, transferred >>

Next ==
    \/ StartRun
    \/ BeginPage
    \/ ProcessItem
    \/ DownloadItem
    \/ Checkpoint
    \/ PageComplete
    \/ PageError
    \/ FinalSummary
    \/ Cancel

Spec == Init /\ [][Next]_vars

----------------------------------------------------------------------------
\* The checkpoint on disk, as sets.

Complete == ToSet(stateFile.downloaded)

Failed == ToSet(stateFile.failed)

----------------------------------------------------------------------------
\* C1: in every checkpoint on disk, no identifier is both in the complete
\* set ('downloaded') and in the failed set.
C1_Disjoint ==
    stateFileStatus = "ok" => Complete \cap Failed = {}

\* C2: whenever the checkpoint on disk records last_page = p, every photo of
\* every page 1..p is recorded in the complete or the failed set.
C2_LastPageFullyProcessed ==
    stateFileStatus = "ok" =>
        \A p \in 1..stateFile.last_page : PageIds(p) \subseteq Complete \cup Failed

\* C3: a run that completes after the fetch or the processing of some page
\* of the loop raised has attempted every page from its start page on, and
\* has attempted each page that raised a second time.
C3_PageFailureContained ==
    (pc = "done" /\ errored # {}) =>
        /\ \A p \in start_page..total_pages : attempts[p] >= 1
        /\ \A p \in errored : attempts[p] >= 2

\* C4: when a run that follows a cancelled run completes and no remote call
\* or write ever failed, every identifier of the collection is in the
\* complete or the failed set of the checkpoint.
C4_NoProgressLost ==
    (pc = "done" /\ runs >= 2 /\ ~prev.done /\ faults = 0) =>
        AllIds \subseteq ToSet(load_state.downloaded) \cup ToSet(load_state.failed)

\* C5: when a run completes after a run that completed, the assets and the
\* metadata documents on disk are those the first run left, the complete set
\* is the one the first run left, and the second run started no transfer.
C5_IdempotentResume ==
    (pc = "done" /\ prev.done) =>
        /\ photosDir = prev.photosDir
        /\ metadataDir = prev.metadataDir
        /\ ToSet(load_state.downloaded) = prev.downloaded
        /\ stats.downloaded = 0
        /\ stats.failed = 0

\* C6: no transfer touches a destination file that exists, and no photo's
\* asset is successfully transferred more than once over all runs.
C6_AtMostOnce ==
    /\ [](\A i \in Items : transferred[i] <= 1)
    /\ [][\A i \in Items : photosDir[i] # "none" =>
            (photosDir'[i] = photosDir[i] /\ transferred'[i] = transferred[i])]_vars

\* C6 witness: a photo whose asset was transferred before is fetched again
\* and the fetch reports Skipped.
C6_Witness ==
    /\ pc = "commit"
    /\ outcome = "Skipped"
    /\ transferred[photo_id] = 1

\* C7: every checkpoint document written contains the complete and the
\* failed set of the document written before it.
C7_SetsOnlyGrow ==
    [][stateFileStatus' = "ok" =>
        /\ Complete \subseteq ToSet(stateFile'.downloaded)
        /\ Failed \subseteq ToSet(stateFile'.failed)]_vars

\* C7 witness: the page handler has rolled last_page back and written a
\* checkpoint whose complete and failed sets are both non-empty.
C7_Witness ==
    /\ pc = "page"
    /\ page - 1 \in errored
    /\ stateFileStatus = "ok"
    /\ stateFile.last_page = page - 2
    /\ Complete # {}
    /\ Failed # {}

\* C8: a fresh run without any error over the 2-page collection <<1, 2>>,
\* <<3>> in which photo 2 has no url ends with statistics downloaded 2,
\* skipped 0, failed 1, total 3 and the checkpoint last_page 2, complete
\* {1, 3}, failed {2}.
C8_EndToEnd ==
    (/\ pc = "done"
     /\ runs = 1
     /\ faults = 0
     /\ catalog = << <<1, 2>>, <<3>> >>
     /\ urls = {1, 3}) =>
        /\ stats = [downloaded |-> 2, skipped |-> 0, failed |-> 1, total |-> 3]
        /\ stateFileStatus = "ok"
        /\ stateFile.last_page = 2
        /\ Complete = {1, 3}
        /\ Failed = {2}

\* C9: when the content fetch of a photo returned Fail, the photo's id is
\* put in the failed set and not in the complete set.
C9_FailRecordedFailed ==
    (pc = "commit" /\ outcome = "Fail") =>
        /\ InSeq(photo_id, state.failed)
        /\ ~InSeq(photo_id, state.downloaded)

\* C10: a failure while one photo is processed does not keep the later
\* photos of its page from being attempted in that run: a completed run has
\* reached every photo of each page it reached a photo of.
C10_ItemFailureContained ==
    pc = "done" =>
        \A p \in start_page..total_pages :
            PageIds(p) \cap reached # {} => PageIds(p) \subseteq reached

----------------------------------------------------------------------------
\* The destination name computed for one record, again and again.

NameInit ==
    /\ PipelineInit
    /\ catalog = << <<1, 2>>, <<3>> >>
    /\ urls = Items
    /\ photo \in Photos
    /\ filename = << >>
    /\ names = {}
    /\ invocations = 0

\* Lines 273-277 for the record: the name is computed from the record alone.
MakeFilename ==
    /\ invocations < MaxInvocations
    /\ invocations' = invocations + 1
    /\ filename' = destination_name(photo)
    /\ names' = names \cup {filename'}
    /\ UNCHANGED << photo, catalog, urls, stateFileStatus, stateFile, photosDir,
                    metadataDir, pc, state, stats, start_page, page, idx, outcome,
                    runs, startup, queried, faults, attempts, errored, reached,
                    transferred, prev >>

NameNext == MakeFilename

NameSpec == NameInit /\ [][NameNext]_vars

----------------------------------------------------------------------------
C12_OptionalFailureNeverHard ==
    ( /\ queried.info = "ok"
      /\ queried.exif # "ok" \/ queried.comments # "ok"
      /\ queried.write \in {"ok", "none"} )
    => /\ queried.write = "ok"
       /\ metadataDir[photo_id].info = "info"
       /\ queried.exif # "ok" => metadataDir[photo_id].exif = "null"
       /\ queried.comments # "ok" => metadataDir[photo_id].comments = "null"

\* C13: a process ended by KeyboardInterrupt has exit code 0 and leaves the
\* checkpoint file whole or absent, here with no other failure in the whole
\* behaviour.
C13_CancelKeepsCheckpointWhole ==
    (pc = "interrupted" /\ faults = 0)
    => exit_code = 0 /\ stateFileStatus \in {"ok", "absent"}

\* C14: a run whose credentials check or authentication fails ends with a
\* non-zero exit code, without having read the checkpoint or issued a page,
\* metadata or asset request, and the step that starts it leaves the
\* checkpoint, the assets and the metadata documents as they were.
C14_FatalStartupTouchesNothing ==
    /\ [](startup.error # "none"
          => /\ pc = "fatal"
             /\ exit_code # 0
             /\ ~startup.state_read
             /\ ~startup.requested)
    /\ [][(runs' # runs /\ startup'.error # "none")
          => UNCHANGED << stateFileStatus, stateFile, photosDir, metadataDir,
                          transferred >>]_vars

\* A second run fails to authenticate after a first run completed and left a
\* checkpoint with downloaded ids.
C14_Witness ==
    /\ runs = 2
    /\ startup.error = "authentication"
    /\ pc = "fatal"
    /\ stateFileStatus = "ok"
    /\ stateFile.downloaded # << >>

\* C15 as stated: the name computed for identifier 123, title "My Trip!" and
\* format "jpg" is 123_My_Trip_.jpg.
C15_ExampleName ==
    (invocations > 0 /\ photo = ExamplePhoto)
    => filename = <<"1", "2", "3", "_", "M", "y", "_", "T", "r", "i", "p", "_",
                    ".", "j", "p", "g">>

\* C15, amended: every computation of a record's destination name gives the
\* same name: the identifier, "_", the title with each character of
\* <>:"/\|?* replaced by "_" (every other character kept) and cut to its
\* first NameLimit characters, ".", and the extension (the original format
\* when present, else mp4 for a video, else jpg).  For identifier 123, title
\* "My Trip!" and format "jpg" the name is "123_My Trip!.jpg".
C15_DeterministicFilename ==
    invocations > 0 =>
        LET t == title_of(photo)
            n == Len(photo.id)
            k == IF Len(t) < NameLimit THEN Len(t) ELSE NameLimit
            ext == SubSeq(filename, n + k + 3, Len(filename))
        IN  /\ names = {filename}
            /\ SubSeq(filename, 1, n) = photo.id
            /\ filename[n + 1] = "_"
            /\ \A i \in 1..k :
                   filename[n + 1 + i] = IF t[i] \in InvalidChars THEN "_" ELSE t[i]
            /\ filename[n + k + 2] = "."
            /\ ext = IF photo.originalformat # << >> THEN photo.originalformat
                     ELSE IF photo.media = "video" THEN <<"m", "p", "4">>
                     ELSE <<"j", "p", "g">>
            /\ Len(filename) <= n + NameLimit + Len(ext) + 2
            /\ photo = ExamplePhoto
               => filename = <<"1", "2", "3", "_", "M", "y", " ", "T", "r", "i", "p", "!",
                               ".", "j", "p", "g">>

\* The name of a video record without original format and with a title
\* longer than NameLimit that holds characters of the class has been
\* computed twice.
C15_Witness ==
    /\ invocations = 2
    /\ photo.has_title
    /\ Len(photo.title) > NameLimit
    /\ \E i \in 1..NameLimit : photo.title[i] \in InvalidChars
    /\ photo.originalformat = << >>
    /\ photo.media = "video"
    /\ Len(filename) = Len(photo.id) + NameLimit + 5

\* C16: when the item loop reaches a photo whose id is in state['downloaded']
\* (and the process is not interrupted there), its step only moves to the
\* next photo: no metadata query or write, no asset fetch, no change of
\* either list, of the statistics or of the checkpoint file.
C16_SkipHasNoEffect ==
    [][( /\ pc = "item"
         /\ idx <= Len(photos)
         /\ InSeq(photo_id, state.downloaded)
         /\ pc' # "interrupted" )
       => /\ pc' = "item"
          /\ idx' = idx + 1
          /\ UNCHANGED << metadataDir, photosDir, transferred, queried, faults,
                          outcome, state, stats, stateFile, stateFileStatus >>]_vars

\* A second run has passed the first photo of a page, whose id the first
\* run recorded as downloaded, without fetching or counting anything.
C16_Witness ==
    /\ runs = 2
    /\ pc = "item"
    /\ idx = 2
    /\ photos[1] \in reached
    /\ InSeq(photos[1], state.downloaded)
    /\ stats.downloaded = 0 /\ stats.skipped = 0 /\ stats.failed = 0
    /\ state = stateFile

\* C17: a first run that passed the startup checks and found no checkpoint
\* does not end with a fatal error when at most one remote request or
\* write failed.
C17_RunsComplete ==
    ( /\ pc = "fatal"
      /\ runs = 1
      /\ stateFileStatus = "absent"
      /\ faults <= 1 )
    => startup.error # "none"

C19_StatsAgree ==
    (pc = "done" /\ runs = 1 /\ faults = 0)
    => /\ stats.failed = Len(state.failed)
       /\ stats.downloaded + stats.skipped = Len(state.downloaded)

\* C20: in every checkpoint on disk, no id occurs twice in 'downloaded' and
\* none occurs twice in 'failed'.
C20_NoDuplicates ==
    stateFileStatus = "ok"
    => NoDup(stateFile.downloaded) /\ NoDup(stateFile.failed)

====
